---- MODULE Spec2Model ----
(***************************************************************************)
(* State-machine model of download_corestack_offline_pack.py: capability   *)
(* discovery, plan building, the retrying streaming download and the       *)
(* manifest, over a disk that outlives a run.                              *)
(*                                                                         *)
(* Strings the code inspects character by character (identifiers, file     *)
(* names, patterns) are sequences of one-character strings.                *)
(***************************************************************************)
EXTENDS Integers, Sequences, FiniteSets, TLC

VARIABLES
    pc,             \* position of main / _download_with_retries
    run,            \* "first" or "second" invocation of main on the same disk
    args,           \* parsed command line (argparse namespace)
    server,         \* the capability documents the server publishes
    disk,           \* files below the pack directory: path -> size in chunks
    manifest,       \* manifest.csv of the pack directory
    readme,         \* README.md of the pack directory
    typenames,      \* main: typenames
    coverage_ids,   \* main: coverage_ids
    items,          \* main: items (the plan)
    idx,            \* main: position of the for loop over items
    updated_items,  \* main: updated_items
    counts,         \* main: downloaded / skipped / failed
    attempt,        \* _download_with_retries: attempt
    n,              \* _download_with_retries: n
    last_err,       \* _download_with_retries: last_err
    resp,           \* _download_with_retries: r (the open response)
    ret,            \* value returned by _download_with_retries
    hist            \* observation record: requests issued, first run's manifest

vars == <<pc, run, args, server, disk, manifest, readme, typenames, coverage_ids, items,
          idx, updated_items, counts, attempt, n, last_err, resp, ret, hist>>

-----------------------------------------------------------------------------
(* Bounds of the model *)

MaxLen == 2          \* longest identifier text of a capability document
MaxAttempts == 2     \* largest --max-attempts
MaxChunks == 2       \* longest response body, in chunks
MaxRetryAttempts == 8 \* largest --max-attempts of the retry schedule

(* Program constants *)

SafeFilenameLimit == 220

BackoffBase == 2     \* backoff_s=2.0, seconds

SleepCeiling == 60   \* min(60.0, sleep_s), seconds

DkSafeFilenameLimit == 200

-----------------------------------------------------------------------------
(* Characters and strings *)

Alphabet == {"a", "A", ":", " "}

\* code point order, as Python's str comparison uses it
Ord(c) ==
    CASE c = " " -> 32
      [] c = "-" -> 45
      [] c = "." -> 46
      [] c = "1" -> 49
      [] c = "2" -> 50
      [] c = ":" -> 58
      [] c = "A" -> 65
      [] c = "_" -> 95
      [] c = "a" -> 97
      [] c = "b" -> 98
      [] c = "c" -> 99
      [] c = "e" -> 101
      [] c = "h" -> 104
      [] c = "k" -> 107
      [] c = "l" -> 108
      [] c = "n" -> 110
      [] c = "o" -> 111
      [] c = "p" -> 112
      [] c = "r" -> 114
      [] c = "s" -> 115
      [] c = "t" -> 116
      [] c = "x" -> 120

Lower(c) == IF c = "A" THEN "a" ELSE c

LowerStr(s) == [i \in 1..Len(s) |-> Lower(s[i])]

IsSpace(c) == c = " "

\* the character class [A-Za-z0-9._-]
IsSafeChar(c) ==
    c \in {"a", "b", "c", "e", "h", "k", "l", "n", "o", "p", "r", "s", "t", "x",
           "A", "1", "2", ".", "_", "-"}

RECURSIVE StripLeft(_)
StripLeft(s) ==
    IF s = <<>> THEN s
    ELSE IF IsSpace(Head(s)) THEN StripLeft(Tail(s)) ELSE s

RECURSIVE StripRight(_)
StripRight(s) ==
    IF s = <<>> THEN s
    ELSE IF IsSpace(s[Len(s)]) THEN StripRight(SubSeq(s, 1, Len(s) - 1)) ELSE s

\* str.strip()
Strip(s) == StripRight(StripLeft(s))

\* re.sub(r"[^A-Za-z0-9._-]+", "_", s): every maximal run of other characters
\* becomes one underscore
RECURSIVE SubUnsafe(_, _)
SubUnsafe(s, inRun) ==
    IF s = <<>> THEN <<>>
    ELSE IF IsSafeChar(Head(s))
         THEN <<Head(s)>> \o SubUnsafe(Tail(s), FALSE)
         ELSE (IF inRun THEN <<>> ELSE <<"_">>) \o SubUnsafe(Tail(s), TRUE)

Truncate(s, k) == IF Len(s) <= k THEN s ELSE SubSeq(s, 1, k)

safe_filename(s) == Truncate(SubUnsafe(Strip(s), FALSE), SafeFilenameLimit)

\* s < t for Python strings
RECURSIVE StrLess(_, _)
StrLess(s, t) ==
    IF t = <<>> THEN FALSE
    ELSE IF s = <<>> THEN TRUE
    ELSE IF Head(s) = Head(t) THEN StrLess(Tail(s), Tail(t))
    ELSE Ord(Head(s)) < Ord(Head(t))

\* sorted(S) of a set of strings
RECURSIVE Sorted(_)
Sorted(S) ==
    IF S = {} THEN <<>>
    ELSE LET m == CHOOSE x \in S : \A y \in S : x = y \/ StrLess(x, y)
         IN  <<m>> \o Sorted(S \ {m})

Range(f) == {f[i] : i \in DOMAIN f}

\* variant: rx.match, which looks at the start of s only
SearchAtStart(p, s) ==
    /\ Len(p) <= Len(s)
    /\ SubSeq(LowerStr(s), 1, Len(p)) = LowerStr(p)

\* rx.search(s) for a pattern without metacharacters compiled with re.IGNORECASE
Search(p, s) ==
    \E i \in 1..(Len(s) + 1) :
        /\ i + Len(p) - 1 <= Len(s)
        /\ SubSeq(LowerStr(s), i, i + Len(p) - 1) = LowerStr(p)

matches_any(patterns, s) == \E k \in DOMAIN patterns : Search(patterns[k], s)

-----------------------------------------------------------------------------
(* Capability parsing: a document is the sequence of texts its Name (or     *)
(* CoverageId) elements enclose, in document order.                         *)

HasColon(s) == \E i \in DOMAIN s : s[i] = ":"

NonBlank(s) == Strip(s) # <<>>

MapStrip(ss) == [i \in DOMAIN ss |-> Strip(ss[i])]

\* variant: [n.strip() for n in names]
parse_wfs_typenames_unfiltered(xml) == MapStrip(xml)

\* [n.strip() for n in names if ":" in n]
parse_wfs_typenames(xml) == MapStrip(SelectSeq(xml, HasColon))

parse_wcs_coverage_ids(xml) == MapStrip(SelectSeq(xml, NonBlank))

-----------------------------------------------------------------------------
(* Paths and the plan *)

OutPath(dir, stem, ext) == [dir |-> dir, stem |-> stem, exts |-> <<ext>>]

\* Path.suffix
Suffix(p) == p.exts[Len(p.exts)]

\* variant: the body is streamed to the destination itself
PartPathInPlace(p) == p

\* out_path.with_suffix(out_path.suffix + ".part")
PartPath(p) ==
    [p EXCEPT !.exts = SubSeq(p.exts, 1, Len(p.exts) - 1) \o <<Suffix(p), "part">>]

WfsUrl(t, fmt) ==
    [service |-> "WFS", version |-> "1.0.0", request |-> "GetFeature",
     id |-> t, format |-> fmt]

WcsUrl(cid) ==
    [service |-> "WCS", version |-> "2.0.1", request |-> "GetCoverage",
     id |-> cid, format |-> "geotiff"]

DownloadItem(kind, name, url, out_path, error) ==
    [kind |-> kind, name |-> name, url |-> url, out_path |-> out_path, error |-> error]

VectorItems(t) ==
    << DownloadItem("vector_geojson", t, WfsUrl(t, "application/json"),
                    OutPath("vectors_geojson", safe_filename(t), "geojson"), ""),
       DownloadItem("vector_kml", t, WfsUrl(t, "application/vnd.google-earth.kml+xml"),
                    OutPath("vectors_kml", safe_filename(t), "kml"), "") >>

RasterItems(cid) ==
    << DownloadItem("raster_geotiff", cid, WcsUrl(cid),
                    OutPath("rasters_geotiff", safe_filename(cid), "tif"), "") >>

RECURSIVE Flatten(_)
Flatten(ss) == IF ss = <<>> THEN <<>> ELSE Head(ss) \o Flatten(Tail(ss))

RECURSIVE InsertInOrder(_, _)
InsertInOrder(x, ss) ==
    IF ss = <<>> THEN <<x>>
    ELSE IF StrLess(Head(ss), x) THEN <<Head(ss)>> \o InsertInOrder(x, Tail(ss))
    ELSE <<x>> \o ss

\* sorted(ss) of a list of strings
RECURSIVE SortedList(_)
SortedList(ss) ==
    IF ss = <<>> THEN <<>> ELSE InsertInOrder(Head(ss), SortedList(Tail(ss)))

\* variant: sorted([t for t in ids if matches_any(t)]), a list for the set
MatchedWithRepeats(ids, patterns) ==
    SortedList(SelectSeq(ids, LAMBDA t : matches_any(patterns, t)))

RECURSIVE FirstOccurrences(_)
FirstOccurrences(ss) ==
    IF ss = <<>> THEN <<>>
    ELSE LET front == FirstOccurrences(SubSeq(ss, 1, Len(ss) - 1))
         IN  IF ss[Len(ss)] \in Range(front) THEN front ELSE Append(front, ss[Len(ss)])

\* variant: the matching identifiers in the order of the document
MatchedInDocumentOrder(ids, patterns) ==
    FirstOccurrences(SelectSeq(ids, LAMBDA t : matches_any(patterns, t)))

\* sorted({t for t in ids if matches_any(t)})
Matched(ids, patterns) == Sorted({t \in Range(ids) : matches_any(patterns, t)})

build_items_for_patterns(tn, cov, patterns, include_rasters) ==
    LET matched_types == Matched(tn, patterns)
        matched_cov   == Matched(cov, patterns)
    IN  Flatten([i \in DOMAIN matched_types |-> VectorItems(matched_types[i])])
        \o (IF include_rasters
            THEN Flatten([i \in DOMAIN matched_cov |-> RasterItems(matched_cov[i])])
            ELSE <<>>)

-----------------------------------------------------------------------------
(* The disk: a function from the paths of the files that exist to their     *)
(* sizes, counted in chunks.                                                *)

EmptyDisk == <<>>

Exists(d, p) == p \in DOMAIN d

WriteFile(d, p, size) == [q \in DOMAIN d \cup {p} |-> IF q = p THEN size ELSE d[q]]

Unlink(d, p) == [q \in DOMAIN d \ {p} |-> d[q]]

\* tmp.replace(out_path)
Replace(d, from, to) == Unlink(WriteFile(d, to, d[from]), from)

-----------------------------------------------------------------------------
(* The manifest *)

NoManifest == [present |-> FALSE, rows |-> <<>>]

ManifestRow(d, it) ==
    [kind |-> it.kind, name |-> it.name, url |-> it.url, out_path |-> it.out_path,
     exists |-> Exists(d, it.out_path),
     bytes |-> IF Exists(d, it.out_path) THEN <<d[it.out_path]>> ELSE <<>>,
     error |-> it.error]

\* variant: the file is opened for appending
write_manifest_append(d, its) ==
    [present |-> TRUE,
     rows |-> manifest.rows \o [i \in DOMAIN its |-> ManifestRow(d, its[i])]]

\* manifest.open("w"): the rows replace the file's content
write_manifest(d, its) ==
    [present |-> TRUE, rows |-> [i \in DOMAIN its |-> ManifestRow(d, its[i])]]

NoReadme == [present |-> FALSE, patterns |-> <<>>, include_rasters |-> FALSE]

write_readme(patterns, include_rasters) ==
    [present |-> TRUE, patterns |-> patterns, include_rasters |-> include_rasters]

-----------------------------------------------------------------------------
(* What a request can meet *)

Statuses == {200, 404, 503}

ContentTypes == {"image/tiff", "text/xml", "TEXT/HTML", "text/plain"}

\* variant: the header is compared as sent
LowerCtAsSent(ct) == ct

\* (r.headers.get("content-type") or "").lower()
LowerCt(ct) == IF ct = "TEXT/HTML" THEN "text/html" ELSE ct

ContainsXml(ct) == ct \in {"text/xml"}

ContainsHtml(ct) == ct \in {"text/html"}

NoResponse == [exc |-> "", status |-> 0, ct |-> "", len |-> 0]

\* session.get raised before any response arrived
NetworkFailures ==
    {[NoResponse EXCEPT !.exc = e] : e \in {"ConnectionError", "ReadTimeout"}}

ErrorResponses == {[NoResponse EXCEPT !.status = s] : s \in Statuses \ {200}}

OkResponses ==
    {[NoResponse EXCEPT !.status = 200, !.ct = c, !.len = k] :
        c \in ContentTypes, k \in 0..MaxChunks}

\* r.raise_for_status()
RaisesForStatus(r) == r.status >= 400

\* variant: the guard looks at the content type alone
content_guard_any_suffix(out_path, ct) == ContainsXml(ct) \/ ContainsHtml(ct)

\* the guard of line 123
content_guard(out_path, ct) ==
    Suffix(out_path) = "tif" /\ (ContainsXml(ct) \/ ContainsHtml(ct))

HttpError(status) == IF status = 404 THEN "HTTPError: 404" ELSE "HTTPError: 503"

MismatchError == "RuntimeError: Unexpected content-type for GeoTIFF"

\* the exceptions of the first except clause (line 134)
TransientErrors == {"ConnectionError", "ReadTimeout", "ChunkedEncodingError"}

-----------------------------------------------------------------------------
(* Initial states *)

NoCall == [attempt |-> 0, n |-> 0, last_err |-> "", resp |-> NoResponse,
           ret |-> [ok |-> FALSE, n |-> 0, err |-> ""]]

ZeroCounts == [downloaded |-> 0, skipped |-> 0, failed |-> 0]

\* variant: the skip branches lack their "skipped += 1"
TallyButSkipped(c, outcome) ==
    IF outcome = "skipped" THEN c ELSE [c EXCEPT ![outcome] = @ + 1]

\* downloaded += 1, skipped += 1 or failed += 1
Tally(c, outcome) == [c EXCEPT ![outcome] = @ + 1]

\* observations of the call in progress: the size of the destination when the
\* item's turn came, the requests issued, whether an attempt ended otherwise
\* than in a transient network error, the delays slept
NoCallHist ==
    [active |-> FALSE, size |-> <<>>, reqs |-> 0, other |-> FALSE, slept |-> <<>>]

\* observations of one run: asset requests issued, whether a plan was built,
\* the answer to the last capability request, the call in progress; and of the
\* run before it: whether it ran to its end and, if it left every planned
\* destination non-empty, the manifest it wrote
NoFirst == [done |-> FALSE, intact |-> FALSE, manifest |-> NoManifest]

NoHist(first) ==
    [reqs |-> 0, planned |-> FALSE, caps |-> NoResponse, call |-> NoCallHist,
     first |-> first]

InitWith(Args, Servers) ==
    /\ pc = "wfs_caps"
    /\ run = "first"
    /\ args \in Args
    /\ server \in Servers
    /\ disk = EmptyDisk
    /\ manifest = NoManifest
    /\ readme = NoReadme
    /\ typenames = <<>>
    /\ coverage_ids = <<>>
    /\ items = <<>>
    /\ idx = 0
    /\ updated_items = <<>>
    /\ counts = ZeroCounts
    /\ attempt = 0
    /\ n = 0
    /\ last_err = ""
    /\ resp = NoResponse
    /\ ret = NoCall.ret
    /\ hist = NoHist(NoFirst)

\* the pipeline: a server publishing vector layer n:a (and a Name element that
\* is no layer) and coverage b
PipelineServers == {[wfs |-> << <<"n", ":", "a">>, <<"a">> >>, wcs |-> << <<"b">> >>]}

\* the command lines: --pattern a selects the vector layer, --pattern b the
\* coverage; --include-rasters is left out where it would select nothing more
PipelineArgs ==
    {x \in [pattern : { << <<"a">> >>, << <<"b">> >> },
            include_rasters : BOOLEAN,
            discover_only : BOOLEAN,
            only_missing : BOOLEAN,
            max_attempts : 0..MaxAttempts] :
        x.pattern = << <<"a">> >> => ~x.include_rasters}

Init == InitWith(PipelineArgs, PipelineServers)

-----------------------------------------------------------------------------
(* main: discovery *)

CapabilityOutcomes == NetworkFailures \cup {[NoResponse EXCEPT !.status = s] : s \in Statuses}

\* variant: no raise_for_status
HttpGetTextNoStatusCheck(r) == r.exc # ""

\* _http_get_text: raises on a network error and, through raise_for_status, on
\* an error status; an exception leaves main
HttpGetTextRaises(r) == r.exc # "" \/ RaisesForStatus(r)

FetchWfsCaps ==
    /\ pc = "wfs_caps"
    /\ \E r \in CapabilityOutcomes :
         /\ hist' = [hist EXCEPT !.caps = r]
         /\ IF HttpGetTextRaises(r)
            THEN /\ pc' = "aborted"
                 /\ UNCHANGED typenames
            ELSE /\ typenames' = parse_wfs_typenames(server.wfs)
                 /\ pc' = IF args.include_rasters THEN "wcs_caps" ELSE "plan"
    /\ UNCHANGED <<run, args, server, disk, manifest, readme, coverage_ids, items, idx,
                   updated_items, counts, attempt, n, last_err, resp, ret>>

FetchWcsCaps ==
    /\ pc = "wcs_caps"
    /\ \E r \in CapabilityOutcomes :
         /\ hist' = [hist EXCEPT !.caps = r]
         /\ IF HttpGetTextRaises(r)
            THEN /\ pc' = "aborted"
                 /\ UNCHANGED coverage_ids
            ELSE /\ coverage_ids' = parse_wcs_coverage_ids(server.wcs)
                 /\ pc' = "plan"
    /\ UNCHANGED <<run, args, server, disk, manifest, readme, typenames, items, idx,
                   updated_items, counts, attempt, n, last_err, resp, ret>>

(* main: planning, the first manifest and the README *)

\* variant: the flag is not looked at
StopsAfterPlanNever(a) == FALSE

\* if args.discover_only: ... return
StopsAfterPlan(a) == a.discover_only

\* variant: no manifest is written at planning time
PlanManifestLater(m, d, its) == m

\* _write_manifest(pack_dir, items), right after the plan is built
PlanManifest(m, d, its) == write_manifest(d, its)

BuildPlan ==
    /\ pc = "plan"
    /\ items' = build_items_for_patterns(typenames, coverage_ids, args.pattern,
                                         args.include_rasters)
    /\ manifest' = PlanManifest(manifest, disk, items')
    /\ readme' = write_readme(args.pattern, args.include_rasters)
    /\ hist' = [hist EXCEPT !.planned = TRUE]
    /\ IF StopsAfterPlan(args)
       THEN pc' = "done" /\ UNCHANGED <<idx, updated_items, counts>>
       ELSE /\ pc' = "loop"
            /\ idx' = 1
            /\ updated_items' = <<>>
            /\ counts' = ZeroCounts
    /\ UNCHANGED <<run, args, server, disk, typenames, coverage_ids,
                   attempt, n, last_err, resp, ret>>

-----------------------------------------------------------------------------
(* main: the download loop *)

\* variant: the temporary path is tested instead of the destination
exists_ok_part(d, p) == Exists(d, PartPath(p)) /\ d[PartPath(p)] > 0

\* variant: the size is not tested
exists_ok_any_size(d, p) == Exists(d, p)

\* variant: the exists column of the manifest is believed
exists_ok_by_manifest(d, p) ==
    \E i \in DOMAIN manifest.rows :
        manifest.rows[i].out_path = p /\ manifest.rows[i].exists

\* it.out_path.exists() and it.out_path.stat().st_size > 0
exists_ok(d, p) == Exists(d, p) /\ d[p] > 0

SizeOnDisk(d, p) == IF Exists(d, p) THEN <<d[p]>> ELSE <<>>

\* variant: range(1, max_attempts)
HasAttemptOffByOne(k) == k < args.max_attempts

\* variant: a first attempt is made whatever max_attempts is
HasAttemptAtLeastOnce(k) == k = 1 \/ k <= args.max_attempts

\* for attempt in range(1, max_attempts + 1): is there an attempt k
HasAttempt(k) == k <= args.max_attempts

\* variant: return False, 0, ""
ReturnFailureNoMessage(err) == [ok |-> FALSE, n |-> 0, err |-> ""]

\* return False, 0, last_err
ReturnFailure(err) == [ok |-> FALSE, n |-> 0, err |-> err]

ReturnSuccess(bytes) == [ok |-> TRUE, n |-> bytes, err |-> ""]

LogCall ==
    [hist EXCEPT !.call = [NoCallHist EXCEPT !.active = TRUE,
                                             !.size = SizeOnDisk(disk, items[idx].out_path)]]

\* variant: an existing file is skipped only under --only-missing
SkipsOnlyWhenAsked(e, only_missing) == e /\ only_missing

\* "if exists_ok and args.only_missing: ... continue" followed by
\* "if exists_ok: ... continue"
SkipsExisting(e, only_missing) == (e /\ only_missing) \/ e

\* one turn of "for it in items": skip the item or call _download_with_retries
LoopItem ==
    /\ pc = "loop"
    /\ idx <= Len(items)
    /\ IF SkipsExisting(exists_ok(disk, items[idx].out_path), args.only_missing)
       THEN /\ counts' = Tally(counts, "skipped")
            /\ updated_items' = Append(updated_items, items[idx])
            /\ idx' = idx + 1
            /\ UNCHANGED <<pc, attempt, n, last_err, resp, ret, hist>>
       ELSE /\ attempt' = 1
            /\ last_err' = ""
            /\ n' = 0
            /\ resp' = NoResponse
            /\ hist' = LogCall
            /\ IF HasAttempt(1)
               THEN pc' = "dl_try" /\ UNCHANGED ret
               ELSE pc' = "returned" /\ ret' = ReturnFailure("")
            /\ UNCHANGED <<counts, updated_items, idx>>
    /\ UNCHANGED <<run, args, server, disk, manifest, readme, typenames, coverage_ids, items>>

-----------------------------------------------------------------------------
(* _download_with_retries *)

OutPathNow == items[idx].out_path

Logged(h, err) ==
    [h EXCEPT !.reqs = @ + 1,
              !.call.reqs = @ + 1,
              !.call.other = @ \/ (err # "" /\ err \notin TransientErrors)]

\* the error the try block raises before the temporary file is opened, "" if none
ErrorBeforeStream(out_path, r) ==
    IF r.exc # "" THEN r.exc
    ELSE IF RaisesForStatus(r) THEN HttpError(r.status)
    ELSE IF content_guard(out_path, LowerCt(r.ct)) THEN MismatchError
    ELSE ""

\* variant: the temporary file is opened for appending
OpenAppending(d, p) == IF p \in DOMAIN d THEN d ELSE WriteFile(d, p, 0)

\* tmp.open("wb"): the file is created, or emptied if it is there
OpenTruncating(d, p) == WriteFile(d, p, 0)

\* f.write(chunk): the file grows by the chunk
WriteChunk(d, p) == WriteFile(d, p, d[p] + 1)

\* lines 116-126: the request, the status check, the content-type guard and the
\* opening (truncating) of the temporary file
Request ==
    /\ pc = "dl_try"
    /\ \E r \in NetworkFailures \cup ErrorResponses \cup OkResponses :
         LET err == ErrorBeforeStream(OutPathNow, r) IN
         /\ resp' = r
         /\ n' = 0
         /\ IF err # ""
            THEN /\ last_err' = err
                 /\ pc' = "dl_cleanup"
                 /\ hist' = Logged(hist, err)
                 /\ UNCHANGED disk
            ELSE /\ disk' = OpenTruncating(disk, PartPath(OutPathNow))
                 /\ pc' = "dl_stream"
                 /\ hist' = Logged(hist, "")
                 /\ UNCHANGED last_err
    /\ UNCHANGED <<run, args, server, manifest, readme, typenames, coverage_ids, items, idx,
                   updated_items, counts, attempt, ret>>

\* lines 127-131: one chunk arrives and is written to the temporary file
StreamChunk ==
    /\ pc = "dl_stream"
    /\ n < resp.len
    /\ n' = n + 1
    /\ disk' = WriteChunk(disk, PartPath(OutPathNow))
    /\ UNCHANGED <<pc, run, args, server, manifest, readme, typenames, coverage_ids, items,
                   idx, updated_items, counts, attempt, last_err, resp, ret, hist>>

\* iter_content raises before the body is complete
StreamDrop ==
    /\ pc = "dl_stream"
    /\ n < resp.len
    /\ last_err' = "ChunkedEncodingError"
    /\ pc' = "dl_cleanup"
    /\ UNCHANGED <<run, args, server, disk, manifest, readme, typenames, coverage_ids, items,
                   idx, updated_items, counts, attempt, n, resp, ret, hist>>

\* variant: the temporary file is not renamed
FinishStreamNoRename(d, out_path) == d

\* line 132-133: the body is complete; rename and return
FinishStream(d, out_path) == Replace(d, PartPath(out_path), out_path)

StreamDone ==
    /\ pc = "dl_stream"
    /\ n = resp.len
    /\ disk' = FinishStream(disk, OutPathNow)
    /\ ret' = ReturnSuccess(n)
    /\ hist' = [hist EXCEPT !.call.other = TRUE]
    /\ pc' = "returned"
    /\ UNCHANGED <<run, args, server, manifest, readme, typenames, coverage_ids, items, idx,
                   updated_items, counts, attempt, n, last_err, resp>>

\* variant: only the first except clause
HandledOnlyTransient(err) == err \in TransientErrors

\* lines 134-137: "except (ChunkedEncodingError, ConnectionError, ReadTimeout)"
\* and "except Exception" between them catch every error of the try block
Handled(err) ==
    \/ err \in TransientErrors
    \/ err \in {HttpError(s) : s \in Statuses \ {200}} \cup {MismatchError}

\* variant: no cleanup
cleanup_partial_noop(d, out_path) == d

\* lines 139-145
cleanup_partial(d, out_path) ==
    IF Exists(d, PartPath(out_path)) THEN Unlink(d, PartPath(out_path)) ELSE d

\* whether the loop goes on after attempt k failed with err
RetryAfter(k, err) == HasAttempt(k + 1)

\* if attempt < max_attempts
SleepsAfter(k) == k < args.max_attempts

\* backoff_s * (2 ** (attempt - 1))
sleep_s(backoff_s, k) == backoff_s * 2^(k - 1)

\* variant: no ceiling
DelayUncapped(backoff_s, k) == sleep_s(backoff_s, k)

\* the argument of time.sleep: min(60.0, sleep_s)
Delay(backoff_s, k) ==
    IF SleepCeiling <= sleep_s(backoff_s, k) THEN SleepCeiling ELSE sleep_s(backoff_s, k)

Slept(h, k) ==
    IF SleepsAfter(k)
    THEN [h EXCEPT !.call.slept = Append(@, Delay(BackoffBase, k))]
    ELSE h

\* lines 134-151: the handlers, the cleanup, the sleep, and the next turn of
\* the loop or the return of the failure
HandleFailure ==
    /\ pc = "dl_cleanup"
    /\ IF ~Handled(last_err)
       THEN pc' = "aborted" /\ UNCHANGED <<disk, attempt, ret, hist>>
       ELSE /\ disk' = cleanup_partial(disk, OutPathNow)
            /\ hist' = Slept(hist, attempt)
            /\ IF RetryAfter(attempt, last_err)
               THEN /\ attempt' = attempt + 1
                    /\ pc' = "dl_try"
                    /\ UNCHANGED ret
               ELSE /\ ret' = ReturnFailure(last_err)
                    /\ pc' = "returned"
                    /\ UNCHANGED attempt
    /\ UNCHANGED <<run, args, server, manifest, readme, typenames, coverage_ids, items, idx,
                   updated_items, counts, n, last_err, resp>>

-----------------------------------------------------------------------------
(* main: after the call, and the report *)

RecordResult ==
    /\ pc = "returned"
    /\ LET it == items[idx] IN
       IF ret.ok
       THEN /\ counts' = Tally(counts, "downloaded")
            /\ updated_items' = Append(updated_items,
                                       DownloadItem(it.kind, it.name, it.url, it.out_path, ""))
       ELSE /\ counts' = Tally(counts, "failed")
            /\ updated_items' = Append(updated_items,
                                       DownloadItem(it.kind, it.name, it.url, it.out_path, ret.err))
    /\ idx' = idx + 1
    /\ pc' = "loop"
    /\ hist' = [hist EXCEPT !.call = NoCallHist]
    /\ attempt' = NoCall.attempt
    /\ n' = NoCall.n
    /\ last_err' = NoCall.last_err
    /\ resp' = NoCall.resp
    /\ ret' = NoCall.ret
    /\ UNCHANGED <<run, args, server, disk, manifest, readme, typenames, coverage_ids, items>>

Report ==
    /\ pc = "loop"
    /\ idx > Len(items)
    /\ manifest' = write_manifest(disk, updated_items)
    /\ pc' = "done"
    /\ UNCHANGED <<run, args, server, disk, readme, typenames, coverage_ids, items, idx,
                   updated_items, counts, attempt, n, last_err, resp, ret, hist>>

-----------------------------------------------------------------------------
(* The environment: the process is killed or interrupted; the script is run *)
(* again. An interrupt raises KeyboardInterrupt, which neither except      *)
(* clause of _download_with_retries catches and main does not handle: it   *)
(* ends the process where it stands, as a kill does.                       *)

Running == {"wfs_caps", "wcs_caps", "plan", "loop", "dl_try", "dl_stream", "dl_cleanup",
            "returned"}

Crash ==
    /\ pc \in Running
    /\ pc' = "crashed"
    /\ UNCHANGED <<run, args, server, disk, manifest, readme, typenames, coverage_ids, items,
                   idx, updated_items, counts, attempt, n, last_err, resp, ret, hist>>

AllMaterialized(m) ==
    \A i \in DOMAIN m.rows : m.rows[i].exists /\ m.rows[i].bytes # <<0>>

Observed ==
    IF pc = "done" /\ ~args.discover_only /\ AllMaterialized(manifest)
    THEN [done |-> TRUE, intact |-> TRUE, manifest |-> manifest]
    ELSE [NoFirst EXCEPT !.done = (pc = "done" /\ ~args.discover_only)]

\* a second invocation on the disk the first one left, with the manifest of
\* the first still in place or removed: with or without --discover-only, with
\* the same --max-attempts after a run that ended and any after one that was
\* killed
Rerun ==
    /\ pc \in {"done", "aborted", "crashed"}
    /\ run = "first"
    /\ run' = "second"
    /\ pc' = "wfs_caps"
    /\ \E m \in 0..MaxAttempts, d \in BOOLEAN :
         /\ pc # "crashed" => m = args.max_attempts
         /\ args' = [args EXCEPT !.max_attempts = m, !.discover_only = d]
    /\ manifest' \in {manifest, NoManifest}
    /\ hist' = NoHist(Observed)
    /\ typenames' = <<>>
    /\ coverage_ids' = <<>>
    /\ items' = <<>>
    /\ idx' = 0
    /\ updated_items' = <<>>
    /\ counts' = ZeroCounts
    /\ attempt' = NoCall.attempt
    /\ n' = NoCall.n
    /\ last_err' = NoCall.last_err
    /\ resp' = NoCall.resp
    /\ ret' = NoCall.ret
    /\ UNCHANGED <<server, disk, readme>>

Next ==
    \/ FetchWfsCaps
    \/ FetchWcsCaps
    \/ BuildPlan
    \/ LoopItem
    \/ Request
    \/ StreamChunk
    \/ StreamDrop
    \/ StreamDone
    \/ HandleFailure
    \/ RecordResult
    \/ Report
    \/ Crash
    \/ Rerun

Spec == Init /\ [][Next]_vars

-----------------------------------------------------------------------------
(* The plan builder on its own: capability documents of two Name elements   *)
(* over the alphabet, and one coverage                                      *)

RawNames == UNION {[1..k -> Alphabet] : k \in 1..MaxLen}

\* a catalog of three layers, two of them of the "alpha" family
AlphaCatalog ==
    << <<"n", "s", ":", "a", "l", "p", "h", "a", "_", "b", "l", "o", "c", "k", "1">>,
       <<"n", "s", ":", "b", "e", "t", "a", "_", "b", "l", "o", "c", "k", "2">>,
       <<"o", "t", "h", "e", "r", ":", "a", "l", "p", "h", "a", "_", "x">> >>

AlphaPattern == <<"a", "l", "p", "h", "a">>

PlanServers ==
    [wfs : {<<x, y>> : x \in RawNames, y \in RawNames} \cup {AlphaCatalog},
     wcs : {<< <<"a">> >>, << <<" ">> >>, << <<"A", ":">> >>, << <<"a">>, <<" ", "a">> >>}]

PlanArgs ==
    [pattern : { << <<"a">> >>, << <<":">> >>, << <<"A">>, <<":", "a">> >>,
                 << AlphaPattern >> },
     include_rasters : BOOLEAN,
     discover_only : {TRUE},
     only_missing : {FALSE},
     max_attempts : {1}]

InitPlan == InitWith(PlanArgs, PlanServers)

NextPlan ==
    \/ FetchWfsCaps
    \/ FetchWcsCaps
    \/ BuildPlan

SpecPlan == InitPlan /\ [][NextPlan]_vars

-----------------------------------------------------------------------------
(* The retry schedule on its own: one run over the vector layer, with up to *)
(* MaxRetryAttempts attempts per item                                       *)

RetryArgs ==
    [pattern : { << <<"a">> >> },
     include_rasters : {FALSE},
     discover_only : {FALSE},
     only_missing : {FALSE},
     max_attempts : 0..MaxRetryAttempts]

InitRetry == InitWith(RetryArgs, PipelineServers)

NextRetry ==
    \/ FetchWfsCaps
    \/ BuildPlan
    \/ LoopItem
    \/ Request
    \/ StreamChunk
    \/ StreamDrop
    \/ StreamDone
    \/ HandleFailure
    \/ RecordResult
    \/ Report

SpecRetry == InitRetry /\ [][NextRetry]_vars

-----------------------------------------------------------------------------
(* download_corestack_dakshina_kannada_offline.py: one pattern, no retries, *)
(* a manifest written once, after the loop                                  *)

dk_safe_filename(s) == Truncate(SubUnsafe(Strip(s), FALSE), DkSafeFilenameLimit)

dk_parse_wfs_typenames(xml) == MapStrip(SelectSeq(xml, HasColon))

\* [i.strip() for i in ids if ":" in i]
dk_parse_wcs_coverage_ids(xml) == MapStrip(SelectSeq(xml, HasColon))

\* the frozen dataclass of this script: no error field
DkDownloadItem(kind, name, url, out_path) ==
    [kind |-> kind, name |-> name, url |-> url, out_path |-> out_path]

\* the GetCoverage URL of this script, which asks for no compression or tiling
DkWcsUrl(cid) ==
    [service |-> "WCS", version |-> "2.0.1", request |-> "GetCoverage",
     id |-> cid, format |-> "geotiff", tiling |-> FALSE]

DkVectorItems(t) ==
    << DkDownloadItem("vector_geojson", t, WfsUrl(t, "application/json"),
                      OutPath("vectors_geojson", dk_safe_filename(t), "geojson")),
       DkDownloadItem("vector_kml", t, WfsUrl(t, "application/vnd.google-earth.kml+xml"),
                      OutPath("vectors_kml", dk_safe_filename(t), "kml")) >>

DkRasterItems(cid) ==
    << DkDownloadItem("raster_geotiff", cid, DkWcsUrl(cid),
                      OutPath("rasters_geotiff", dk_safe_filename(cid), "tif")) >>

\* sorted({t for t in ids if rx.search(t)})
DkMatched(ids, pattern) == Sorted({t \in Range(ids) : Search(pattern, t)})

\* items[: args.max_items] when max_items > 0
FirstItems(its, max_items) ==
    IF max_items > 0 /\ max_items < Len(its) THEN SubSeq(its, 1, max_items) ELSE its

DkManifestRow(d, it) ==
    [kind |-> it.kind, name |-> it.name, url |-> it.url, out_path |-> it.out_path,
     exists |-> Exists(d, it.out_path),
     bytes |-> IF Exists(d, it.out_path) THEN <<d[it.out_path]>> ELSE <<>>]

dk_write_manifest(d, its) ==
    [present |-> TRUE, rows |-> [i \in DOMAIN its |-> DkManifestRow(d, its[i])]]

dk_write_readme(pattern, include_rasters) ==
    [present |-> TRUE, patterns |-> <<pattern>>, include_rasters |-> include_rasters]

DkZeroCounts == [downloaded |-> 0, skipped |-> 0]

\* a server publishing vector layer n:a and coverage n:b
DkServers ==
    {[wfs |-> << <<"n", ":", "a">>, <<"a">> >>, wcs |-> << <<"n", ":", "b">>, <<"b">> >>]}

DkArgs == [pattern : { <<"n">>, <<"a">> }, include_rasters : BOOLEAN, max_items : 0..1]

InitDk ==
    /\ pc = "dk_wfs"
    /\ run = "first"
    /\ args \in DkArgs
    /\ server \in DkServers
    /\ disk = EmptyDisk
    /\ manifest = NoManifest
    /\ readme = NoReadme
    /\ typenames = <<>>
    /\ coverage_ids = <<>>
    /\ items = <<>>
    /\ idx = 0
    /\ updated_items = <<>>
    /\ counts = DkZeroCounts
    /\ attempt = 0
    /\ n = 0
    /\ last_err = ""
    /\ resp = NoResponse
    /\ ret = NoCall.ret
    /\ hist = NoHist(NoFirst)

\* what this script has no use for
DkUnused == <<run, args, server, updated_items, attempt, ret, hist>>

\* build_items, lines 118-156: the vector catalog and the vector items
DkBuildVectors ==
    /\ pc = "dk_wfs"
    /\ \E r \in CapabilityOutcomes :
         IF HttpGetTextRaises(r)
         THEN pc' = "aborted" /\ UNCHANGED <<typenames, items, idx>>
         ELSE /\ typenames' = dk_parse_wfs_typenames(server.wfs)
              /\ LET dk_types == DkMatched(typenames', args.pattern)
                     vectors == Flatten([i \in DOMAIN dk_types |-> DkVectorItems(dk_types[i])])
                 IN  IF args.include_rasters
                     THEN items' = vectors /\ pc' = "dk_wcs" /\ UNCHANGED idx
                     ELSE /\ items' = FirstItems(vectors, args.max_items)
                          /\ pc' = "dk_loop"
                          /\ idx' = 1
    /\ UNCHANGED <<disk, manifest, readme, coverage_ids, counts, n, last_err, resp>>
    /\ UNCHANGED DkUnused

\* build_items, lines 159-181: the raster catalog and the raster items
DkBuildRasters ==
    /\ pc = "dk_wcs"
    /\ \E r \in CapabilityOutcomes :
         IF HttpGetTextRaises(r)
         THEN pc' = "aborted" /\ UNCHANGED <<coverage_ids, items, idx>>
         ELSE /\ coverage_ids' = dk_parse_wcs_coverage_ids(server.wcs)
              /\ LET dk_cov == DkMatched(coverage_ids', args.pattern)
                     rasters == Flatten([i \in DOMAIN dk_cov |-> DkRasterItems(dk_cov[i])])
                 IN  items' = FirstItems(items \o rasters, args.max_items)
              /\ pc' = "dk_loop"
              /\ idx' = 1
    /\ UNCHANGED <<disk, manifest, readme, typenames, counts, n, last_err, resp>>
    /\ UNCHANGED DkUnused

\* one turn of "for it in items", lines 283-286
DkLoopItem ==
    /\ pc = "dk_loop"
    /\ idx <= Len(items)
    /\ IF Exists(disk, items[idx].out_path) /\ disk[items[idx].out_path] > 0
       THEN /\ counts' = [counts EXCEPT !.skipped = @ + 1]
            /\ idx' = idx + 1
            /\ UNCHANGED pc
       ELSE /\ pc' = "dk_try"
            /\ UNCHANGED <<counts, idx>>
    /\ UNCHANGED <<disk, manifest, readme, typenames, coverage_ids, items, n, last_err, resp>>
    /\ UNCHANGED DkUnused

\* _stream_download, lines 75-81: the request, the status check and the
\* opening (truncating) of the temporary file
DkRequest ==
    /\ pc = "dk_try"
    /\ \E r \in NetworkFailures \cup ErrorResponses \cup OkResponses :
         /\ resp' = r
         /\ n' = 0
         /\ IF r.exc # "" \/ RaisesForStatus(r)
            THEN /\ last_err' = IF r.exc # "" THEN r.exc ELSE HttpError(r.status)
                 /\ pc' = "dk_except"
                 /\ UNCHANGED disk
            ELSE /\ disk' = WriteFile(disk, PartPath(items[idx].out_path), 0)
                 /\ pc' = "dk_stream"
                 /\ UNCHANGED last_err
    /\ UNCHANGED <<manifest, readme, typenames, coverage_ids, items, idx, counts>>
    /\ UNCHANGED DkUnused

\* lines 82-86: one chunk arrives and is written to the temporary file
DkStreamChunk ==
    /\ pc = "dk_stream"
    /\ n < resp.len
    /\ n' = n + 1
    /\ disk' = WriteFile(disk, PartPath(items[idx].out_path), n + 1)
    /\ UNCHANGED <<pc, manifest, readme, typenames, coverage_ids, items, idx, counts,
                   last_err, resp>>
    /\ UNCHANGED DkUnused

\* iter_content raises before the body is complete; the exception leaves
\* _stream_download, which has no handler
DkStreamDrop ==
    /\ pc = "dk_stream"
    /\ n < resp.len
    /\ last_err' = "ChunkedEncodingError"
    /\ pc' = "dk_except"
    /\ UNCHANGED <<disk, manifest, readme, typenames, coverage_ids, items, idx, counts,
                   n, resp>>
    /\ UNCHANGED DkUnused

\* lines 88-89 and 290-291: the rename, the return and "downloaded += 1"
DkStreamDone ==
    /\ pc = "dk_stream"
    /\ n = resp.len
    /\ disk' = Replace(disk, PartPath(items[idx].out_path), items[idx].out_path)
    /\ counts' = [counts EXCEPT !.downloaded = @ + 1]
    /\ idx' = idx + 1
    /\ pc' = "dk_loop"
    /\ UNCHANGED <<manifest, readme, typenames, coverage_ids, items, n, last_err, resp>>
    /\ UNCHANGED DkUnused

\* lines 292-293: "except Exception as e" prints the failure; the loop goes on
DkExcept ==
    /\ pc = "dk_except"
    /\ idx' = idx + 1
    /\ pc' = "dk_loop"
    /\ UNCHANGED <<disk, manifest, readme, typenames, coverage_ids, items, counts,
                   n, last_err, resp>>
    /\ UNCHANGED DkUnused

\* lines 295-296: the manifest and the README
DkReport ==
    /\ pc = "dk_loop"
    /\ idx > Len(items)
    /\ manifest' = dk_write_manifest(disk, items)
    /\ readme' = dk_write_readme(args.pattern, args.include_rasters)
    /\ pc' = "done"
    /\ UNCHANGED <<disk, typenames, coverage_ids, items, idx, counts, n, last_err, resp>>
    /\ UNCHANGED DkUnused

NextDk ==
    \/ DkBuildVectors
    \/ DkBuildRasters
    \/ DkLoopItem
    \/ DkRequest
    \/ DkStreamChunk
    \/ DkStreamDrop
    \/ DkStreamDone
    \/ DkExcept
    \/ DkReport

SpecDk == InitDk /\ [][NextDk]_vars

-----------------------------------------------------------------------------
(* export_corestack_western_ghats_to_kml.py.  In this script's runs the     *)
(* variables hold: server, the API's active-locations payload and the       *)
(* district list read from the CSV; items, wg_active; updated_items,        *)
(* layer_rows; hist, the set "seen" and the layer requests issued; manifest *)
(* and readme, the layer table and the point table as written at the end.   *)

\* labels as the API sends them; ":" is a district outside the Western Ghats
DistrictLabels == { <<"a">>, <<"A">>, <<":">> }
BlockLabels == { <<"a">>, <<>>, <<" ">> }

SeqsUpTo2(S) == {<<>>} \cup {<<x>> : x \in S} \cup {<<x, y>> : x \in S, y \in S}

DistrictObjects == [label : DistrictLabels, blocks : SeqsUpTo2(BlockLabels)]

StateObjects(ds) == << [label |-> <<"A">>, district |-> ds] >>

\* the observed shape (a list), the documented shape (a dict, whose keys are
\* unique) and a payload that is neither
Payloads ==
    {[shape |-> "list", states |-> StateObjects(ds)] :
        ds \in SeqsUpTo2(DistrictObjects) \ {<<>>}}
    \cup {[shape |-> "dict", states |-> StateObjects(<<d>>)] : d \in DistrictObjects}
    \cup {[shape |-> "other", states |-> <<>>]}

\* read_wg_district_set: (state, district), stripped and lower-cased
WgSet == { << <<"a">>, <<"a">> >> }

LocationRow(state, district, tehsil) ==
    [state |-> state, district |-> district, tehsil |-> tehsil]

\* the rows of one district: one per block, or one with an empty tehsil
DistrictRows(state_label, d) ==
    IF d.blocks = <<>>
    THEN << LocationRow(state_label, d.label, <<>>) >>
    ELSE [b \in DOMAIN d.blocks |-> LocationRow(state_label, d.label, d.blocks[b])]

StateRows(st) ==
    Flatten([k \in DOMAIN st.district |-> DistrictRows(st.label, st.district[k])])

flatten_active_locations(payload) ==
    Flatten([k \in DOMAIN payload.states |-> StateRows(payload.states[k])])

InWgSet(r) == <<LowerStr(Strip(r.state)), LowerStr(Strip(r.district))>> \in WgSet

LocationKey(state, district, tehsil) ==
    <<LowerStr(state), LowerStr(district), LowerStr(tehsil)>>

\* variant: nothing is ever taken as seen
AlreadySeenNever(seen, key) == FALSE

\* "if key in seen"
AlreadySeen(seen, key) == key \in seen

LayerRow(state, district, tehsil, layer_name, layer_url, layer_kml_url, error) ==
    [state |-> state, district |-> district, tehsil |-> tehsil,
     layer_name |-> layer_name, layer_url |-> layer_url,
     layer_kml_url |-> layer_kml_url, error |-> error]

\* the rows without an "error" key carry <<>> there
NoTehsilRow(state, district, tehsil) ==
    LayerRow(state, district, tehsil, "(no tehsil in active locations)", "", "", <<>>)

ErrorRow(state, district, tehsil, e) ==
    LayerRow(state, district, tehsil, "(ERROR fetching layers)", "", "", <<e>>)

NoLayersRow(state, district, tehsil) ==
    LayerRow(state, district, tehsil, "(no layers returned)", "", "", <<>>)

\* a layer URL is a WFS GetFeature URL, another URL, or missing
is_wfs_url(url) == url = "wfs"

layer_url_to_kml_href(url) ==
    IF url = "" THEN "" ELSE IF ~is_wfs_url(url) THEN "" ELSE "wfs_as_kml"

LayerRows(state, district, tehsil, layers) ==
    [k \in DOMAIN layers |->
        LayerRow(state, district, tehsil, layers[k].layer_name, layers[k].layer_url,
                 layer_url_to_kml_href(layers[k].layer_url), <<>>)]

\* what /get_generated_layer_urls/ can answer: a failure (any status but 200,
\* or no connection), an empty list, or a list of layers
LayerAnswers ==
    { [error |-> "RuntimeError", layers |-> <<>>],
      [error |-> "", layers |-> <<>>],
      [error |-> "", layers |-> << [layer_name |-> "L1", layer_url |-> "wfs"] >>],
      [error |-> "", layers |-> << [layer_name |-> "L1", layer_url |-> "wms"],
                                   [layer_name |-> "L2", layer_url |-> ""] >>] }

\* DEFAULT_USER_POINTS
UserPoints == 1..2

PointRow(k, ok) == [name |-> k, found |-> ok, error |-> IF ok THEN <<>> ELSE <<"RuntimeError">>]

NoKmlHist == [seen |-> {}, requests |-> <<>>]

NoTable == [present |-> FALSE, rows |-> <<>>]

InitKml ==
    /\ pc = "kml_active"
    /\ run = "first"
    /\ args = [points_csv |-> ""]
    /\ server \in [payload : Payloads, reachable : BOOLEAN]
    /\ disk = EmptyDisk
    /\ manifest = NoTable
    /\ readme = NoTable
    /\ typenames = <<>>
    /\ coverage_ids = <<>>
    /\ items = <<>>
    /\ idx = 0
    /\ updated_items = <<>>
    /\ counts = ZeroCounts
    /\ attempt = 0
    /\ n = 0
    /\ last_err = ""
    /\ resp = NoResponse
    /\ ret = NoCall.ret
    /\ hist = NoKmlHist

KmlUnused ==
    <<run, args, server, disk, typenames, coverage_ids, counts, attempt, n, resp, ret>>

\* lines 356-367: the active locations, flattened and filtered; _http_get
\* and _flatten_active_locations raise RuntimeError, which nothing catches
KmlActiveLocations ==
    /\ pc = "kml_active"
    /\ IF ~server.reachable \/ server.payload.shape \notin {"list", "dict"}
       THEN /\ pc' = "aborted"
            /\ last_err' = "RuntimeError"
            /\ UNCHANGED <<items, idx>>
       ELSE /\ items' = SelectSeq(flatten_active_locations(server.payload), InWgSet)
            /\ idx' = 1
            /\ pc' = "kml_loop"
            /\ UNCHANGED last_err
    /\ UNCHANGED <<manifest, readme, updated_items, hist>>
    /\ UNCHANGED KmlUnused

\* one turn of "for r in wg_active", lines 374-458
KmlLocation ==
    /\ pc = "kml_loop"
    /\ idx <= Len(items)
    /\ LET state == Strip(items[idx].state)
           district == Strip(items[idx].district)
           tehsil == Strip(items[idx].tehsil)
           key == LocationKey(state, district, tehsil)
       IN  IF AlreadySeen(hist.seen, key)
           THEN UNCHANGED <<updated_items, hist>>
           ELSE IF tehsil = <<>>
           THEN /\ updated_items' =
                     Append(updated_items, NoTehsilRow(state, district, tehsil))
                /\ hist' = [hist EXCEPT !.seen = @ \cup {key}]
           ELSE \E a \in LayerAnswers :
                /\ hist' = [hist EXCEPT !.seen = @ \cup {key},
                                        !.requests = Append(@, LocationRow(state, district, tehsil))]
                /\ updated_items' =
                     IF a.error # ""
                     THEN Append(updated_items, ErrorRow(state, district, tehsil, a.error))
                     ELSE IF a.layers = <<>>
                     THEN Append(updated_items, NoLayersRow(state, district, tehsil))
                     ELSE updated_items \o LayerRows(state, district, tehsil, a.layers)
    /\ idx' = idx + 1
    /\ UNCHANGED <<pc, manifest, readme, items, last_err>>
    /\ UNCHANGED KmlUnused

\* lines 460-507: the admin lookup of the user points, each in its own
\* try/except, then the two tables and the KML
KmlWrite ==
    /\ pc = "kml_loop"
    /\ idx > Len(items)
    /\ \E ok \in [UserPoints -> BOOLEAN] :
         readme' = [present |-> TRUE, rows |-> [k \in UserPoints |-> PointRow(k, ok[k])]]
    /\ manifest' = [present |-> TRUE, rows |-> updated_items]
    /\ pc' = "done"
    /\ UNCHANGED <<items, idx, updated_items, last_err, hist>>
    /\ UNCHANGED KmlUnused

NextKml ==
    \/ KmlActiveLocations
    \/ KmlLocation
    \/ KmlWrite

SpecKml == InitKml /\ [][NextKml]_vars

-----------------------------------------------------------------------------
(* Properties *)

InCall == hist.call.active

Dest == items[idx].out_path

\* the temporary sibling of p, spelled out: p's name followed by ".part"
Sibling(p) == [dir |-> p.dir, stem |-> p.stem, exts |-> p.exts \o <<"part">>]

Changed(q) == SizeOnDisk(disk', q) # SizeOnDisk(disk, q)

\* the step that ends a completely streamed response by the rename
CompletedRename(q) ==
    /\ InCall
    /\ q = Dest
    /\ pc = "dl_stream" /\ pc' = "returned" /\ ret'.ok
    /\ resp.status = 200 /\ n = resp.len
    /\ SizeOnDisk(disk, Sibling(q)) = <<resp.len>>
    /\ SizeOnDisk(disk', q) = <<resp.len>>
    /\ ~Exists(disk', Sibling(q))

\* C1: whatever the attempts meet, and wherever the process is killed, a file
\* that is no '.part' file changes only in the rename that ends a completely
\* streamed response, and then holds the whole body; every other write goes to
\* the '.part' sibling of the destination of the call in progress.
C1_DestinationAtomic ==
    [][\A q \in DOMAIN disk \cup DOMAIN disk' :
          Changed(q) =>
              \/ InCall /\ q = Sibling(Dest)
              \/ CompletedRename(q)]_vars

\* C1 witness: the process was killed in mid-stream, a partial '.part' file is
\* on the disk and there is no file at the destination.
C1_Witness ==
    /\ pc = "crashed" /\ InCall
    /\ resp.status = 200
    /\ Exists(disk, Sibling(Dest))
    /\ disk[Sibling(Dest)] >= 1 /\ disk[Sibling(Dest)] < resp.len
    /\ ~Exists(disk, Dest)

\* content types as the server sends them
Textual == {"text/xml", "TEXT/HTML", "text/plain"}

Markup == {"text/xml", "TEXT/HTML"}

RasterAnswered(types) ==
    /\ InCall
    /\ Dest.exts = <<"tif">>
    /\ resp.status = 200
    /\ resp.ct \in types

Rejected ==
    /\ last_err = MismatchError
    /\ pc # "dl_stream"
    /\ ~ret.ok
    /\ SizeOnDisk(disk, Dest) = hist.call.size
    /\ ~Exists(disk, Sibling(Dest)) \/ pc \in {"dl_cleanup", "crashed"}

\* C2 as stated: an attempt for a raster item that is answered 2xx with a
\* textual content type ends in the content-mismatch error and leaves the
\* destination as it was.
C2_TextualRejected == RasterAnswered(Textual) => Rejected

\* C2 amended: an attempt for a raster item that is answered 2xx with a content
\* type containing "xml" or "html", in any letter case, ends in the
\* content-mismatch error, streams nothing and leaves the destination as it was.
C2_MarkupRejected == RasterAnswered(Markup) => Rejected

\* C2 witness: a raster call has returned failure after an answer TEXT/HTML.
C2_Witness ==
    /\ RasterAnswered(Markup)
    /\ resp.ct = "TEXT/HTML"
    /\ pc = "returned"
    /\ ret.err = MismatchError

\* the error classes of the transfer engine
ErrorClass(err) ==
    IF err \in TransientErrors THEN "transient-network"
    ELSE IF err = MismatchError THEN "content-mismatch"
    ELSE IF err = "HTTPError: 404" THEN "permanent"
    ELSE IF err = "HTTPError: 503" THEN "overload"
    ELSE "none"

\* C3: no attempt starts after an attempt of the same call failed with a
\* permanent error or a content mismatch.
C3_NoRetryAfterPermanent ==
    pc = "dl_try" => ErrorClass(last_err) \notin {"permanent", "content-mismatch"}

CallPcs == {"dl_try", "dl_stream", "dl_cleanup"}

\* position inside the call, growing with every step of it
Progress(at, k, m) ==
    k * (MaxChunks + 3)
      + (CASE at = "dl_try" -> 0
           [] at = "dl_stream" -> 1 + m
           [] at = "dl_cleanup" -> MaxChunks + 2)

\* C4: a call never issues more than max_attempts requests and every step of
\* it moves forward; a call whose attempts all fail with a transient network
\* error returns failure after exactly max_attempts requests, and main then
\* counts the item as failed and records the error.
C4_RetryCeiling ==
    [][/\ hist'.call.reqs <= args'.max_attempts
       /\ (pc \in CallPcs /\ pc' \in CallPcs) =>
              Progress(pc', attempt', n') > Progress(pc, attempt, n)
       /\ (pc' = "returned" /\ ~hist'.call.other) =>
              hist'.call.reqs = args'.max_attempts /\ ~ret'.ok
       /\ (pc = "returned" /\ pc' = "loop" /\ ~hist.call.other) =>
              /\ counts' = [counts EXCEPT !.failed = @ + 1]
              /\ updated_items' = Append(updated_items, [items[idx] EXCEPT !.error = ret.err])]_vars

\* C4 witness: a call with max_attempts = MaxAttempts >= 2 has returned failure
\* after as many requests, all of which met a transient network error.
C4_Witness ==
    /\ pc = "returned" /\ InCall
    /\ ~hist.call.other
    /\ args.max_attempts >= 2
    /\ hist.call.reqs = args.max_attempts
    /\ ret.err \in TransientErrors

SecondOfTwo == run = "second" /\ hist.first.done /\ ~args.discover_only

\* C5 as stated, for command lines that allow an attempt: the second of two
\* complete runs issues no asset request and ends with every item counted as
\* skipped.
C5_SecondRunIdle ==
    (SecondOfTwo /\ args.max_attempts >= 1) =>
        /\ hist.reqs = 0
        /\ pc = "done" => counts.skipped = Len(items)

\* C5 amended: when the first run left every planned destination non-empty,
\* the second run issues no asset request, counts every item as skipped and
\* writes the manifest the first run wrote.
C5_SecondRunIdleWhenIntact ==
    (SecondOfTwo /\ hist.first.intact) =>
        /\ hist.reqs = 0
        /\ pc = "done" =>
              /\ counts.skipped = Len(items)
              /\ counts.downloaded = 0 /\ counts.failed = 0
              /\ manifest = hist.first.manifest

\* C5 witness: a second run over a plan of two items has ended, all skipped.
C5_Witness ==
    /\ SecondOfTwo /\ hist.first.intact
    /\ pc = "done"
    /\ Len(items) >= 2
    /\ counts.skipped = Len(items)
    /\ manifest.present

\* C6: the destination paths of a plan are pairwise different.
C6_UniqueDestinations ==
    \A i, j \in DOMAIN items : i # j => items[i].out_path # items[j].out_path

ProgramStep ==
    \/ FetchWfsCaps \/ FetchWcsCaps \/ BuildPlan \/ LoopItem \/ Request \/ StreamChunk
    \/ StreamDrop \/ StreamDone \/ HandleFailure \/ RecordResult \/ Report

\* C7: a run aborts only before a plan exists; once it exists the program
\* always has a next step until it is done, and it ends with every planned
\* item recorded once, in order, and the manifest of the recorded items
\* written.
C7_ItemFailuresNeverAbort ==
    /\ pc = "aborted" => ~hist.planned /\ items = <<>>
    /\ (hist.planned /\ pc \in Running) => ENABLED ProgramStep
    /\ (pc = "done" /\ ~args.discover_only) =>
          /\ Len(updated_items) = Len(items)
          /\ \A i \in DOMAIN items :
                [updated_items[i] EXCEPT !.error = ""] = items[i]
          /\ counts.downloaded + counts.skipped + counts.failed = Len(items)
          /\ manifest.present
          /\ Len(manifest.rows) = Len(items)
          /\ \A i \in DOMAIN items : manifest.rows[i].error = updated_items[i].error

\* C7 witness: a run over two items has ended normally with both failed, the
\* first of them with a permanent error.
C7_Witness ==
    /\ pc = "done"
    /\ Len(items) >= 2
    /\ counts.failed = Len(items)
    /\ updated_items[1].error = "HTTPError: 404"
    /\ manifest.rows[2].error # ""

RetriedWithoutPart == (pc = "dl_try" /\ attempt > 1) => ~Exists(disk, Sibling(Dest))

\* C8 as stated: no '.part' file exists when an attempt after the first
\* starts, nor when the call has returned.
C8_NoPartLeft ==
    /\ RetriedWithoutPart
    /\ pc = "returned" => ~Exists(disk, Sibling(Dest))

\* C8 amended: no '.part' file exists when an attempt after the first starts,
\* nor when a call that made at least one attempt has returned.
C8_NoPartLeftAfterAttempt ==
    /\ RetriedWithoutPart
    /\ (pc = "returned" /\ hist.call.reqs >= 1) => ~Exists(disk, Sibling(Dest))

\* C8 witness: a call has returned failure after its last attempt broke in
\* mid-stream with a chunk already written.
C8_Witness ==
    /\ pc = "returned" /\ ~ret.ok
    /\ ret.err = "ChunkedEncodingError"
    /\ n >= 1 /\ n < resp.len
    /\ ~Exists(disk, Sibling(Dest))

NonEmptyAtTurn == Dest \in DOMAIN disk /\ disk[Dest] >= 1

\* C9: at an item's turn, a non-empty destination makes main count the item as
\* skipped, keep it as it is and move on without a request; a missing or empty
\* one makes it call _download_with_retries; requests are issued only inside
\* such a call.
C9_SkipIffNonEmpty ==
    [][/\ (pc = "loop" /\ idx <= Len(items) /\ pc' # "crashed") =>
             IF NonEmptyAtTurn
             THEN /\ counts' = [counts EXCEPT !.skipped = @ + 1]
                  /\ updated_items' = Append(updated_items, items[idx])
                  /\ idx' = idx + 1 /\ pc' = "loop"
                  /\ hist' = hist /\ disk' = disk
             ELSE /\ hist'.call.active /\ ~hist.call.active
                  /\ pc' \in {"dl_try", "returned"}
                  /\ idx' = idx /\ counts' = counts
       /\ hist'.reqs > hist.reqs =>
             /\ hist.call.active
             /\ hist.call.size \in {<<>>, <<0>>}]_vars

\* C9 witness: in a second run one item has been skipped and a request has
\* been issued for another, whose destination the first run left empty.
C9_Witness ==
    /\ run = "second"
    /\ counts.skipped >= 1
    /\ InCall /\ hist.call.size = <<0>>
    /\ hist.reqs >= 1

CapabilityFailed(r) == r.exc # "" \/ (r.status # 0 /\ r.status \notin 200..299)

\* C10: after a capability request that met a network error or a status
\* outside 2xx the run is aborted, with no plan built, no manifest written by
\* it and no asset request issued.
C10_DiscoveryFailureAborts ==
    CapabilityFailed(hist.caps) =>
        /\ pc = "aborted"
        /\ ~hist.planned /\ items = <<>>
        /\ hist.reqs = 0
        /\ run = "first" => manifest = NoManifest /\ disk = EmptyDisk

\* C10 witness: the raster capability request failed with status 503 after the
\* vector catalog had been fetched and parsed.
C10_Witness ==
    /\ pc = "aborted"
    /\ hist.caps.status = 503
    /\ args.include_rasters
    /\ typenames # <<>>

\* the identity columns of row i are those of item it
RowIdentifies(row, it) ==
    /\ row.kind = it.kind /\ row.name = it.name
    /\ row.url = it.url /\ row.out_path = it.out_path

\* C11: from planning on, and whatever became of the items, the manifest has
\* exactly one row per planned item, in plan order, and nothing of an earlier
\* manifest; after the run the rows tell what is on the disk and the error of
\* every item.
C11_OneRowPerPlannedItem ==
    hist.planned =>
        /\ manifest.present
        /\ Len(manifest.rows) = Len(items)
        /\ \A i \in DOMAIN items : RowIdentifies(manifest.rows[i], items[i])
        /\ (pc = "done" /\ ~args.discover_only) =>
              \A i \in DOMAIN items :
                  /\ manifest.rows[i].exists = (items[i].out_path \in DOMAIN disk)
                  /\ manifest.rows[i].bytes = SizeOnDisk(disk, items[i].out_path)
                  /\ manifest.rows[i].error = updated_items[i].error

\* C11 witness: a second run over two items has ended with one item failed
\* and one downloaded, over the manifest the first run had written.
C11_Witness ==
    /\ run = "second" /\ hist.first.done
    /\ pc = "done"
    /\ Len(items) >= 2
    /\ counts.failed >= 1 /\ counts.downloaded >= 1
    /\ Len(manifest.rows) = 2
    /\ manifest.rows[1].error # "" /\ manifest.rows[2].exists

\* the first rows of the manifest tell the outcomes recorded so far
OutcomesWritten ==
    /\ manifest.present
    /\ Len(manifest.rows) >= Len(updated_items)
    /\ \A i \in DOMAIN updated_items :
          /\ RowIdentifies(manifest.rows[i], updated_items[i])
          /\ manifest.rows[i].error = updated_items[i].error
          /\ manifest.rows[i].exists = (updated_items[i].out_path \in DOMAIN disk)

\* C12: when the run was cancelled during a call of _download_with_retries,
\* no '.part' file of that call is left and the manifest tells the outcomes
\* recorded so far.
C12_CancelCleansUp ==
    (pc = "crashed" /\ InCall) =>
        /\ ~Exists(disk, Sibling(Dest))
        /\ OutcomesWritten

SleptNow == hist.call.slept

\* after failed attempt k, and only then if another attempt follows, the call
\* sleeps min(60, 2 * 2^(k-1)) seconds
ScheduledDelays ==
    /\ InCall => Len(SleptNow) = attempt - 1
    /\ \A k \in DOMAIN SleptNow :
          SleptNow[k] = IF 2 * 2^(k - 1) < 60 THEN 2 * 2^(k - 1) ELSE 60

\* C13 as stated: the delay after failed attempt k < max_attempts is
\* min(60, backoff * 2^(k-1)) and the delays of one call are strictly
\* increasing.
C13_DelaysStrictlyIncreasing ==
    /\ ScheduledDelays
    /\ \A j, k \in DOMAIN SleptNow : j < k => SleptNow[j] < SleptNow[k]

\* C13 amended: the delay after failed attempt k < max_attempts is
\* min(60, backoff * 2^(k-1)); the delays of one call never decrease, and
\* they increase strictly until the ceiling of 60 seconds is reached.
C13_DelaysIncreaseToCeiling ==
    /\ ScheduledDelays
    /\ \A j, k \in DOMAIN SleptNow :
          j < k => SleptNow[j] < SleptNow[k] \/ (SleptNow[j] = 60 /\ SleptNow[k] = 60)

\* C13 witness: a call with --max-attempts 8 has failed after seven sleeps,
\* the last two of them at the ceiling.
C13_Witness ==
    /\ pc = "returned" /\ ~ret.ok
    /\ args.max_attempts >= 8
    /\ Len(SleptNow) >= 7
    /\ SleptNow[5] = 32 /\ SleptNow[6] = 60 /\ SleptNow[7] = 60

VectorKinds == {"vector_geojson", "vector_kml"}

RasterKinds == {"raster_geotiff"}

\* the identifiers the plan has items of the given kinds for
PlannedNames(kinds) == {items[i].name : i \in {j \in DOMAIN items : items[j].kind \in kinds}}

SameLetter(c, d) == c = d \/ {c, d} = {"a", "A"}

\* p is found somewhere inside s, letter case apart
Occurs(p, s) ==
    \E i \in 0..Len(s) :
        /\ i + Len(p) <= Len(s)
        /\ \A j \in 1..Len(p) : SameLetter(s[i + j], p[j])

OccursAny(ps, s) == \E k \in DOMAIN ps : Occurs(ps[k], s)

\* C14: the plan has items for exactly the identifiers inside which at least
\* one pattern is found, letter case apart; of ns:alpha_block1, ns:beta_block2
\* and other:alpha_x the pattern alpha selects the first and the third.
C14_SelectedIffSearch ==
    hist.planned =>
        /\ PlannedNames(VectorKinds) = {t \in Range(typenames) : OccursAny(args.pattern, t)}
        /\ PlannedNames(RasterKinds) = {c \in Range(coverage_ids) : OccursAny(args.pattern, c)}
        /\ (typenames = AlphaCatalog /\ args.pattern = << AlphaPattern >>) =>
              PlannedNames(VectorKinds) = {AlphaCatalog[1], AlphaCatalog[3]}

\* C14 witness: the plan of pattern alpha over the catalog of three layers
\* holds the items of ns:alpha_block1 and other:alpha_x.
C14_Witness ==
    /\ hist.planned
    /\ typenames = AlphaCatalog /\ args.pattern = << AlphaPattern >>
    /\ Len(items) = 4
    /\ items[1].name = AlphaCatalog[1] /\ items[3].name = AlphaCatalog[3]
    /\ AlphaCatalog[2] \notin PlannedNames(VectorKinds)

ItemsOf(name, kind) == {i \in DOMAIN items : items[i].name = name /\ items[i].kind = kind}

\* the identifiers of a catalog that the patterns select
Selected(ids) == {t \in ids : OccursAny(args.pattern, t)}

\* the coverage identifiers the server publishes
PublishedCoverages ==
    {Strip(server.wcs[i]) : i \in {j \in DOMAIN server.wcs : Strip(server.wcs[j]) # <<>>}}

SameButFormat(u, v) ==
    /\ u.format # v.format
    /\ [u EXCEPT !.format = ""] = [v EXCEPT !.format = ""]

\* C15: however often the catalog lists an identifier, the plan holds for
\* every selected vector identifier one vector_geojson and one vector_kml item
\* whose URLs differ in the output format only, for every selected coverage
\* one raster_geotiff item when include_rasters is set and none when it is
\* not, and no other item.
C15_ItemsPerIdentifier ==
    hist.planned =>
        /\ \A t \in Selected(Range(typenames)) :
              /\ Cardinality(ItemsOf(t, "vector_geojson")) = 1
              /\ Cardinality(ItemsOf(t, "vector_kml")) = 1
              /\ \A i \in ItemsOf(t, "vector_geojson"), j \in ItemsOf(t, "vector_kml") :
                    SameButFormat(items[i].url, items[j].url)
        /\ \A c \in Selected(PublishedCoverages) :
              Cardinality(ItemsOf(c, "raster_geotiff")) = IF args.include_rasters THEN 1 ELSE 0
        /\ Len(items) = 2 * Cardinality(Selected(Range(typenames)))
                          + (IF args.include_rasters
                             THEN Cardinality(Selected(PublishedCoverages)) ELSE 0)

\* C15 witness: a layer and a coverage are both listed twice and selected;
\* the plan holds the two vector items and the one raster item.
C15_Witness ==
    /\ hist.planned /\ args.include_rasters
    /\ Len(typenames) = 2 /\ typenames[1] = typenames[2]
    /\ Len(coverage_ids) = 2 /\ coverage_ids[1] = coverage_ids[2]
    /\ Len(items) = 3
    /\ items[1].kind = "vector_geojson" /\ items[2].kind = "vector_kml"
    /\ items[3].kind = "raster_geotiff"

KindRank(kind) ==
    CASE kind = "vector_geojson" -> 1
      [] kind = "vector_kml" -> 2
      [] kind = "raster_geotiff" -> 3

\* vector items form the first group of a plan, raster items the second
GroupRank(kind) == IF kind \in VectorKinds THEN 1 ELSE 2

\* x comes before y by identifier and, for one identifier, by kind
BeforeByIdentifier(x, y) ==
    \/ StrLess(x.name, y.name)
    \/ x.name = y.name /\ KindRank(x.kind) < KindRank(y.kind)

\* C16 as stated: the plan is ordered by identifier and, for one identifier,
\* by kind: geojson, kml, raster.
C16_OrderedByIdentifierThenKind ==
    hist.planned =>
        \A i, j \in DOMAIN items : i < j => BeforeByIdentifier(items[i], items[j])

\* C16 amended: the plan holds the vector items before the raster items, and
\* each of the two groups ordered by identifier and, for one identifier, by
\* kind. The order is strict, so the set of items determines the list.
C16_OrderedByGroupThenIdentifier ==
    hist.planned =>
        \A i, j \in DOMAIN items :
            i < j =>
                \/ GroupRank(items[i].kind) < GroupRank(items[j].kind)
                \/ /\ GroupRank(items[i].kind) = GroupRank(items[j].kind)
                   /\ BeforeByIdentifier(items[i], items[j])

\* C16 witness: the document lists layer a: before layer A:, the plan has A:
\* first; coverage a, which sorts between the two, comes last.
C16_Witness ==
    /\ hist.planned
    /\ typenames = << <<"a", ":">>, <<"A", ":">> >>
    /\ Len(items) = 5
    /\ items[1].name = <<"A", ":">> /\ items[3].name = <<"a", ":">>
    /\ items[5].name = <<"a">> /\ items[5].kind = "raster_geotiff"

LoopPcs == {"loop", "dl_try", "dl_stream", "dl_cleanup", "returned"}

\* m has one row per item of its, telling what d holds at the item's destination
Covers(m, its, d) ==
    /\ m.present
    /\ Len(m.rows) = Len(its)
    /\ \A i \in DOMAIN its :
          /\ RowIdentifies(m.rows[i], its[i])
          /\ m.rows[i].exists = (its[i].out_path \in DOMAIN d)
          /\ m.rows[i].bytes = SizeOnDisk(d, its[i].out_path)

\* C17: a run with --discover-only never enters the download loop and issues
\* no asset request; no step of it creates, changes or removes a file below
\* the pack directory other than the manifest and the README; its planning
\* step writes the manifest of all planned items and ends the run.
C17_DiscoverOnlyTouchesNothing ==
    [][/\ args'.discover_only => pc' \notin LoopPcs /\ hist'.reqs = 0
       /\ (args.discover_only /\ pc \in Running) =>
             /\ disk' = disk
             /\ (pc = "plan" /\ pc' # "crashed") =>
                   /\ pc' = "done"
                   /\ Covers(manifest', items', disk)
                   /\ readme'.present]_vars

\* C17 witness: a --discover-only run has ended on a disk where a killed run
\* had left one destination and one '.part' file; both are still there and
\* the manifest tells of the two planned items which one exists.
C17_Witness ==
    /\ run = "second" /\ args.discover_only
    /\ pc = "done"
    /\ Len(items) = 2
    /\ disk = ( items[1].out_path :> 1 ) @@ ( Sibling(items[2].out_path) :> 1 )
    /\ manifest.rows[1].exists /\ ~manifest.rows[2].exists

\* where the items of layer n:a and of coverage b belong
ExpectedPath(it) ==
    CASE it.kind = "vector_geojson" ->
           [dir |-> "vectors_geojson", stem |-> <<"n", "_", "a">>, exts |-> <<"geojson">>]
      [] it.kind = "vector_kml" ->
           [dir |-> "vectors_kml", stem |-> <<"n", "_", "a">>, exts |-> <<"kml">>]
      [] it.kind = "raster_geotiff" ->
           [dir |-> "rasters_geotiff", stem |-> <<"b">>, exts |-> <<"tif">>]

AllDownloaded ==
    pc = "done" /\ ~args.discover_only /\ counts.downloaded = Len(items)

\* C18: after a run that downloaded every planned item, every planned
\* destination exists, layer n:a at vectors_geojson/n_a.geojson and at
\* vectors_kml/n_a.kml, and every row of the manifest says so and has no error.
C18_AllDownloadedAllExist ==
    AllDownloaded =>
        \A i \in DOMAIN items :
            /\ items[i].out_path = ExpectedPath(items[i])
            /\ ExpectedPath(items[i]) \in DOMAIN disk
            /\ manifest.rows[i].out_path = ExpectedPath(items[i])
            /\ manifest.rows[i].exists
            /\ manifest.rows[i].bytes = <<disk[ExpectedPath(items[i])]>>
            /\ manifest.rows[i].error = ""

\* C18 witness: a first run has downloaded the two items of layer n:a, the
\* second of them after a failed attempt.
C18_Witness ==
    /\ AllDownloaded /\ run = "first"
    /\ Len(items) = 2
    /\ hist.reqs >= 3
    /\ DOMAIN disk = {ExpectedPath(items[1]), ExpectedPath(items[2])}
    /\ items[1].name = <<"n", ":", "a">>

\* the message of a failed attempt that was answered r for destination q
AttemptError(r, q) ==
    IF r.exc # "" THEN r.exc
    ELSE IF r.status = 404 THEN "HTTPError: 404"
    ELSE IF r.status = 503 THEN "HTTPError: 503"
    ELSE IF q.exts = <<"tif">> /\ r.ct \in Markup
         THEN "RuntimeError: Unexpected content-type for GeoTIFF"
    ELSE "ChunkedEncodingError"

Newest(its) == its[Len(its)]

\* C19: a call that made an attempt and returns failure returns the message
\* of its last attempt, the one numbered max_attempts; main records that
\* message with the item, and no message with an item it downloaded or
\* skipped; the final manifest has the recorded messages in its error column.
C19_LastErrorRecorded ==
    [][/\ (pc # "returned" /\ pc' = "returned" /\ ~ret'.ok /\ hist'.call.reqs >= 1) =>
             /\ attempt' = args'.max_attempts
             /\ ret'.err = AttemptError(resp', Dest)
       /\ (pc = "returned" /\ pc' = "loop") =>
             Newest(updated_items').error = IF ret.ok THEN "" ELSE ret.err
       /\ (pc = "loop" /\ pc' = "loop" /\ updated_items' # updated_items) =>
             Newest(updated_items').error = ""
       /\ (pc = "loop" /\ pc' = "done") =>
             /\ Len(manifest'.rows) = Len(updated_items)
             /\ \A i \in DOMAIN updated_items :
                   /\ manifest'.rows[i].out_path = updated_items[i].out_path
                   /\ manifest'.rows[i].error = updated_items[i].error]_vars

\* C19 witness: a call of two attempts has returned ReadTimeout, the message
\* of its second attempt, after a first attempt that ended in another error.
C19_Witness ==
    /\ pc = "returned" /\ ~ret.ok
    /\ attempt = 2 /\ hist.call.reqs = 2
    /\ hist.call.other
    /\ resp.exc = "ReadTimeout" /\ ret.err = "ReadTimeout"

SkipsItem ==
    /\ pc' = "loop" /\ idx' = idx + 1
    /\ counts' = [counts EXCEPT !.skipped = @ + 1]
    /\ hist' = hist

\* C20: a run may start with the manifest of an earlier run in place or
\* without it, and nothing it does depends on which: discovery leaves the
\* manifest alone, planning replaces it by rows computed from the plan and the
\* disk, an item is skipped exactly when its destination is non-empty on the
\* disk, whatever the manifest tells of it, requests are issued only for
\* destinations that are missing or empty, and the final manifest is computed
\* from the recorded items and the disk.
C20_DiskIsAuthoritative ==
    [][/\ pc \in {"wfs_caps", "wcs_caps"} => manifest' = manifest
       /\ (pc = "plan" /\ pc' # "crashed") => Covers(manifest', items', disk)
       /\ (pc = "loop" /\ idx <= Len(items) /\ pc' # "crashed") =>
             /\ SkipsItem <=> NonEmptyAtTurn
             /\ manifest' = manifest
       /\ hist'.reqs > hist.reqs => hist.call.size \in {<<>>, <<0>>}
       /\ (pc = "loop" /\ pc' = "done") =>
             /\ Covers(manifest', updated_items, disk)
             /\ \A i \in DOMAIN updated_items :
                   manifest'.rows[i].error = updated_items[i].error]_vars

\* C20 witness: a run after a killed one has skipped the first item, which the
\* killed run had downloaded after writing its manifest, and has issued a
\* request for the second, which the manifest lists as existing and the disk
\* holds empty.
C20_Witness ==
    /\ run = "second" /\ ~hist.first.done
    /\ counts.skipped = 1 /\ idx = 2
    /\ InCall /\ hist.call.reqs >= 1
    /\ hist.call.size = <<0>>
    /\ manifest.rows[2].exists /\ manifest.rows[2].bytes = <<0>>

\* t is s without its leading and trailing blanks
IsTrimOf(t, s) ==
    \E i, j \in 0..Len(s) :
        /\ i + j <= Len(s)
        /\ \A k \in 1..i : s[k] = " "
        /\ \A k \in (Len(s) - j + 1)..Len(s) : s[k] = " "
        /\ Len(t) = Len(s) - i - j
        /\ \A k \in 1..Len(t) : t[k] = s[i + k]
        /\ t # <<>> => t[1] # " " /\ t[Len(t)] # " "

\* out lists, in the order of the document and as often as the document does,
\* the trimmed texts of the entries of doc that are among keep
ListsInOrder(out, doc, keep) ==
    \E f \in [DOMAIN out -> DOMAIN doc] :
        /\ \A i, j \in DOMAIN out : i < j => f[i] < f[j]
        /\ {f[i] : i \in DOMAIN out} = keep
        /\ \A i \in DOMAIN out : IsTrimOf(out[i], doc[f[i]])

Unique(ss) == \A i, j \in DOMAIN ss : i # j => ss[i] # ss[j]

WithColon(doc) == {i \in DOMAIN doc : \E k \in DOMAIN doc[i] : doc[i][k] = ":"}

NotBlank(doc) == {i \in DOMAIN doc : \E k \in DOMAIN doc[i] : doc[i][k] # " "}

WfsParsed == pc \in {"wcs_caps", "plan", "done", "loop"}

WcsParsed == args.include_rasters /\ pc \in {"plan", "done", "loop"}

\* C21 as stated: the parsed vector identifiers are unique and contain ':';
\* the parsed coverage ids are unique and are texts of the document.
C21_ParsedUnique ==
    /\ WfsParsed =>
          /\ Unique(typenames)
          /\ \A i \in DOMAIN typenames : \E k \in DOMAIN typenames[i] : typenames[i][k] = ":"
    /\ WcsParsed =>
          /\ Unique(coverage_ids)
          /\ \A i \in DOMAIN coverage_ids : coverage_ids[i] \in Range(server.wcs)

\* C21 amended: the parsed vector identifiers are the texts of the document
\* that contain ':', trimmed, in document order and as often as the document
\* lists them; the parsed coverage ids are the texts that are not blank,
\* trimmed, in document order and as often as the document lists them.
C21_ParsedInDocumentOrder ==
    /\ WfsParsed =>
          /\ ListsInOrder(typenames, server.wfs, WithColon(server.wfs))
          /\ \A i \in DOMAIN typenames : \E k \in DOMAIN typenames[i] : typenames[i][k] = ":"
    /\ WcsParsed => ListsInOrder(coverage_ids, server.wcs, NotBlank(server.wcs))

\* C21 witness: both documents list one identifier twice, once of the two
\* times with a blank around it; both parsed lists hold it twice.
C21_Witness ==
    /\ WfsParsed /\ WcsParsed
    /\ Len(typenames) = 2 /\ typenames[1] = typenames[2]
    /\ server.wfs[1] # server.wfs[2]
    /\ Len(coverage_ids) = 2 /\ coverage_ids[1] = coverage_ids[2]
    /\ server.wcs[1] # server.wcs[2]

SameIdentity(x, y) ==
    /\ x.kind = y.kind /\ x.name = y.name /\ x.url = y.url /\ x.out_path = y.out_path

Counted == counts.downloaded + counts.skipped + counts.failed

\* the items before position k have been counted once each and recorded in
\* plan order
CountedUpTo(k) ==
    /\ Counted = k
    /\ Len(updated_items) = k
    /\ \A i \in 1..k : SameIdentity(updated_items[i], items[i])

\* C22: at every turn of main's loop the items before the current one have
\* been counted exactly once and recorded in plan order; when the loop has
\* ended, planned = downloaded + skipped + failed and updated_items follows
\* the plan item by item.
C22_EveryItemCountedOnce ==
    /\ pc \in LoopPcs => idx \in 1..(Len(items) + 1) /\ CountedUpTo(idx - 1)
    /\ (pc = "done" /\ ~args.discover_only) => CountedUpTo(Len(items))

\* C22 witness: a run over two items has ended with one of them skipped and
\* the other failed.
C22_Witness ==
    /\ pc = "done" /\ ~args.discover_only
    /\ Len(items) = 2
    /\ counts.skipped = 1 /\ counts.failed = 1 /\ counts.downloaded = 0
    /\ updated_items[1].error = "" /\ updated_items[2].error # ""

PartFiles == {p \in DOMAIN disk : p.exts[Len(p.exts)] = "part"}

\* C23: in download_corestack_dakshina_kannada_offline.py, when a download
\* has failed there is no file at its destination and no '.part' file of it,
\* and no '.part' file is left when the loop has finished.
C23_DkNoPartLeft ==
    /\ pc = "dk_except" =>
          /\ items[idx].out_path \notin DOMAIN disk
          /\ Sibling(items[idx].out_path) \notin DOMAIN disk
    /\ (pc = "dk_loop" /\ idx > Len(items)) => PartFiles = {}
    /\ pc = "done" => PartFiles = {}

KmlVisited == IF pc \in {"kml_loop", "done"} THEN 1..(idx - 1) ELSE {}

RowsOf(i) ==
    {j \in DOMAIN updated_items :
        LocationKey(updated_items[j].state, updated_items[j].district,
                    updated_items[j].tehsil)
          = LocationKey(Strip(items[i].state), Strip(items[i].district),
                        Strip(items[i].tehsil))}

HasNoTehsil(i) == Strip(items[i].tehsil) = <<>>

\* C24: in export_corestack_western_ghats_to_kml.main, every Western Ghats
\* active location without a tehsil that the loop has visited has exactly one
\* row in the layer table, the placeholder, which carries no error; no layer
\* request has been issued for a location without a tehsil; the loop is never
\* left early, so the locations after it have their rows too, and the table
\* written at the end is the one collected.
C24_NoTehsilPlaceholder ==
    /\ \A i \in KmlVisited :
          /\ RowsOf(i) # {}
          /\ HasNoTehsil(i) =>
                /\ Cardinality(RowsOf(i)) = 1
                /\ \A j \in RowsOf(i) :
                      /\ updated_items[j].layer_name = "(no tehsil in active locations)"
                      /\ updated_items[j].error = <<>>
    /\ \A k \in DOMAIN hist.requests : hist.requests[k].tehsil # <<>>
    /\ pc = "aborted" => items = <<>>
    /\ pc = "done" => idx = Len(items) + 1 /\ manifest.rows = updated_items

\* the payload lists a district without blocks twice and a block after it;
\* the run has ended with one placeholder and the rows of the block
C24_Witness ==
    /\ pc = "done"
    /\ Len(items) = 3
    /\ HasNoTehsil(1) /\ HasNoTehsil(2) /\ ~HasNoTehsil(3)
    /\ Len(hist.requests) = 1
    /\ Len(manifest.rows) = 3

TurnSkips(flag) == SkipsExisting(exists_ok(disk, items[idx].out_path), flag)

\* C25: at every turn of the loop the decision to skip is the same with and
\* without --only-missing, and what the turn does is what a run with the
\* opposite flag would do in the same state: a non-empty destination is
\* skipped and counted, with no request and no change on disk or in the
\* manifest, and anything else is handed to _download_with_retries; no step
\* changes the flag.
C25_OnlyMissingIsNoOp ==
    [][/\ (pc = "loop" /\ idx <= Len(items) /\ pc' # "crashed") =>
             /\ TurnSkips(TRUE) = TurnSkips(FALSE)
             /\ SkipsItem <=> TurnSkips(~args.only_missing)
             /\ ~SkipsItem => pc' \in {"dl_try", "returned"} /\ counts' = counts
             /\ NonEmptyAtTurn =>
                   /\ SkipsItem
                   /\ disk' = disk /\ manifest' = manifest
                   /\ updated_items' = Append(updated_items, items[idx])
       /\ args'.only_missing = args.only_missing]_vars

\* a second run without the flag has skipped the file the first run left
C25_Witness ==
    /\ ~args.only_missing
    /\ run = "second" /\ hist.first.intact
    /\ pc = "loop" /\ idx = 2 /\ counts.skipped = 1
    /\ hist.reqs = 0

VectorTurn ==
    /\ pc \in {"dl_try", "dl_stream", "returned"}
    /\ Suffix(Dest) \in {"geojson", "kml"}

\* C26: for a vector item, a request answered 200 is never rejected for its
\* content type: whatever the type, the temporary file is opened and no error
\* is noted; once the body has arrived in full it is renamed to the
\* destination, the call returns success with the body's size and an empty
\* error, and main counts the item as downloaded and records an empty error.
C26_VectorsNotGuarded ==
    [][VectorTurn =>
         /\ (pc = "dl_try" /\ pc' # "crashed" /\ resp'.status = 200) =>
               /\ pc' = "dl_stream"
               /\ last_err' = last_err
               /\ Sibling(Dest) \in DOMAIN disk'
         /\ (pc = "dl_stream" /\ pc' = "returned") =>
               /\ ret' = [ok |-> TRUE, n |-> resp.len, err |-> ""]
               /\ Dest \in DOMAIN disk' /\ disk'[Dest] = resp.len
         /\ (pc = "returned" /\ ret.ok /\ pc' = "loop") =>
               /\ counts'.downloaded = counts.downloaded + 1
               /\ counts'.failed = counts.failed
               /\ updated_items'[idx].error = ""]_vars

\* a GeoJSON request answered with an HTML page has been saved and the call
\* has returned success
C26_Witness ==
    /\ pc = "returned"
    /\ Dest.exts = <<"geojson">>
    /\ resp.status = 200 /\ resp.ct = "TEXT/HTML" /\ resp.len = MaxChunks
    /\ hist.call.reqs = 1
    /\ ret = [ok |-> TRUE, n |-> MaxChunks, err |-> ""]
    /\ disk[Dest] = MaxChunks

\* C27: while a response is streamed, the temporary file holds the bytes
\* received in this attempt and no others; when the call has returned
\* success, the destination holds the whole body of that attempt and nothing
\* more, the returned count is its size, and the temporary file is gone,
\* whatever earlier attempts or an earlier run had left in the temporary file.
C27_OnlyTheSuccessfulBody ==
    /\ pc = "dl_stream" =>
          /\ Sibling(Dest) \in DOMAIN disk
          /\ disk[Sibling(Dest)] = n
          /\ n <= resp.len
    /\ (pc = "returned" /\ ret.ok) =>
          /\ Dest \in DOMAIN disk
          /\ disk[Dest] = resp.len
          /\ ret.n = disk[Dest]
          /\ Sibling(Dest) \notin DOMAIN disk

\* in a run that follows a killed one, the second attempt of a call, made
\* after a stream that broke, has delivered a body of one chunk
C27_Witness ==
    /\ run = "second"
    /\ pc = "returned" /\ ret.ok
    /\ hist.call.reqs = 2
    /\ last_err = "ChunkedEncodingError"
    /\ resp.len = 1 /\ ret.n = 1 /\ disk[Dest] = 1

\* manifest m has one row per item of its, in order, none with an error
ListsUnattempted(m, its) ==
    /\ m.present
    /\ Len(m.rows) = Len(its)
    /\ \A i \in DOMAIN its : RowIdentifies(m.rows[i], its[i]) /\ m.rows[i].error = ""

\* C28: in a run that is not discover-only, the step that builds the plan
\* writes a manifest with one row per planned item and no error, before any
\* asset request; every asset request is issued with such a manifest in
\* place; and a run that is killed after planning leaves that manifest.
C28_ManifestBeforeDownloads ==
    [][/\ (pc = "plan" /\ pc' = "loop") =>
             /\ ListsUnattempted(manifest', items')
             /\ hist.reqs = 0 /\ hist'.reqs = 0
       /\ hist'.reqs > hist.reqs => ListsUnattempted(manifest, items)
       /\ (pc \in LoopPcs /\ pc' = "crashed") => ListsUnattempted(manifest', items)]_vars

\* a first run over two items was killed in the call for the second one
C28_Witness ==
    /\ run = "first"
    /\ pc = "crashed"
    /\ ~args.discover_only
    /\ Len(items) = 2 /\ idx = 2
    /\ InCall /\ hist.reqs >= 2
    /\ Len(manifest.rows) = 2

Reversed(ss) == [i \in 1..Len(ss) |-> ss[Len(ss) + 1 - i]]

PlanOf(tn, cov, patterns) ==
    build_items_for_patterns(tn, cov, patterns, args.include_rasters)

\* C29: the plan built from the parsed identifiers and the patterns is also
\* the plan built from the three lists reversed, from the three lists with
\* every entry repeated, and from the three lists sorted and freed of
\* repeats: lists with the same entries give the same ordered item list.
C29_PlanFromSetsOnly ==
    hist.planned =>
        /\ items = PlanOf(Reversed(typenames), Reversed(coverage_ids), Reversed(args.pattern))
        /\ items = PlanOf(typenames \o typenames, coverage_ids \o coverage_ids,
                          args.pattern \o args.pattern)
        /\ items = PlanOf(Sorted(Range(typenames)), Sorted(Range(coverage_ids)),
                          Sorted(Range(args.pattern)))

\* two patterns, two identifiers listed in descending order, both selected
C29_Witness ==
    /\ hist.planned
    /\ Len(args.pattern) = 2
    /\ Len(typenames) = 2 /\ StrLess(typenames[2], typenames[1])
    /\ Len(items) >= 4

NoAttempts == args.max_attempts = 0

\* C30: with no attempt allowed, the call for an item whose destination is
\* missing or empty returns at once: failure, no bytes, an empty message, no
\* request and no change on disk; main counts the item as failed with an
\* empty error, and the manifest written at the end has an empty error in
\* every row.  No request is issued in such a run at all.
C30_NoAttemptsFailsSilently ==
    [][NoAttempts =>
         /\ hist.reqs = 0 /\ pc \notin CallPcs
         /\ (pc = "loop" /\ idx <= Len(items) /\ ~NonEmptyAtTurn /\ pc' # "crashed") =>
               /\ pc' = "returned"
               /\ ret' = [ok |-> FALSE, n |-> 0, err |-> ""]
               /\ disk' = disk
               /\ hist'.reqs = 0
         /\ (pc = "returned" /\ pc' = "loop") =>
               /\ counts'.failed = counts.failed + 1
               /\ counts'.downloaded = counts.downloaded
               /\ updated_items'[idx].error = ""
               /\ disk' = disk
         /\ (pc = "loop" /\ pc' = "done") =>
               \A i \in DOMAIN items : manifest'.rows[i].error = ""]_vars

\* a run with --max-attempts 0 over two missing items has ended
C30_Witness ==
    /\ NoAttempts /\ ~args.discover_only
    /\ run = "first"
    /\ pc = "done"
    /\ counts = [downloaded |-> 0, skipped |-> 0, failed |-> 2]
    /\ hist.reqs = 0 /\ disk = EmptyDisk
    /\ manifest.rows[1].error = "" /\ manifest.rows[2].error = ""
    /\ ~manifest.rows[1].exists

====
